---- MODULE Spec2Model ----
(***************************************************************************)
(* Model of the hertz "secure" middleware.                                 *)
(*                                                                         *)
(* secure.go holds the option setters, Default, options.Apply and New.     *)
(* The policy evaluator that New calls (newPolicy, applyToContext and its  *)
(* helpers) is modelled from section 4.1 of the specification.             *)
(*                                                                         *)
(* Strings that the program parses (host names) are tuples of one          *)
(* character strings; Str turns such a tuple into the string it spells.    *)
(***************************************************************************)
EXTENDS Integers, Sequences, FiniteSets, TLC

VARIABLES
    userOpts,   \* the options the caller has written so far, in order
    ctor,       \* "none", or the constructor the caller used: "New", "Default"
    given,      \* history: per setter, the last argument New received
    policy,     \* the policy the returned handler closes over
    req,        \* the request being handled
    c           \* its request context

vars == <<userOpts, ctor, given, policy, req, c>>

\* The largest number of options a caller passes to New or Default.
MaxOpts == 2

-----------------------------------------------------------------------------
(* Text helpers *)

RECURSIVE Str(_)
Str(s) == IF s = <<>> THEN "" ELSE Head(s) \o Str(Tail(s))

\* Index of the first occurrence of ch in s, or 0.
IndexOf(s, ch) ==
    LET I == {i \in 1..Len(s) : s[i] = ch}
    IN IF I = {} THEN 0 ELSE CHOOSE i \in I : \A j \in I : i <= j

Digits == {"0", "1", "2", "3", "4", "5", "6", "7", "8", "9"}

DigitVal(ch) ==
    CASE ch = "0" -> 0 [] ch = "1" -> 1 [] ch = "2" -> 2 [] ch = "3" -> 3
      [] ch = "4" -> 4 [] ch = "5" -> 5 [] ch = "6" -> 6 [] ch = "7" -> 7
      [] ch = "8" -> 8 [] ch = "9" -> 9

RECURSIVE DecVal(_)
DecVal(s) == IF s = <<>> THEN 0
             ELSE DecVal(SubSeq(s, 1, Len(s) - 1)) * 10 + DigitVal(s[Len(s)])

\* The dot separated fields of s.
RECURSIVE SplitDots(_)
SplitDots(s) ==
    LET i == IndexOf(s, ".")
    IN IF i = 0 THEN <<s>>
       ELSE <<SubSeq(s, 1, i - 1)>> \o SplitDots(SubSeq(s, i + 1, Len(s)))

-----------------------------------------------------------------------------
(* The values the model draws its inputs from *)

WwwExampleCom == <<"w","w","w",".","e","x","a","m","p","l","e",".","c","o","m">>
SubExampleCom == <<"s","u","b",".","e","x","a","m","p","l","e",".","c","o","m">>
Www3ExampleCom == <<"w","w","w","3",".","e","x","a","m","p","l","e",".","c","o","m">>
Loopback == <<"1","2","7",".","0",".","0",".","1">>
Localhost == <<"l","o","c","a","l","h","o","s","t">>
Port8080 == <<":","8","0","8","0">>

\* Host values of inbound requests; <<>> is the empty or missing host.
Hosts == { <<>>, WwwExampleCom, WwwExampleCom \o Port8080, SubExampleCom,
           Www3ExampleCom, Loopback, Loopback \o Port8080, Localhost \o Port8080 }

Paths == {"/foo", "/foo?a=1"}

\* A header set or a header map is a set of <<name, value>> pairs with no
\* name twice.
NoHeaders == {}

RequestHeaders == { NoHeaders,
                    {<<"X-Forwarded-Proto", "https">>},
                    {<<"X-Forwarded-Proto", "http">>} }

Requests == [host : Hosts, tls : BOOLEAN, headers : RequestHeaders, path : Paths]

AllowedHostLists == { <<>>, <<WwwExampleCom>>, <<WwwExampleCom, SubExampleCom>> }

SSLHosts == {"", "secure.example.com"}

STSSecondsValues == {-1, 0, 1, 315360000}

FrameOptionsValues == {"", "SAMEORIGIN"}
ContentSecurityPolicies == {"", "default-src 'self'"}
ReferrerPolicies == {"", "strict-origin-when-cross-origin"}
FeaturePolicies == {"", "vibrate 'none';"}

\* A bad-host handler is "nil" (none configured), "abort" (writes 500 and
\* aborts, as the handler of TestBadHostHandler does) or "noabort" (writes 500
\* and returns without aborting).
BadHostHandlers == {"nil", "abort", "noabort"}

ProxyHeaderMaps == { {},
                     {<<"X-Forwarded-Proto", "https">>},
                     {<<"X-Arbitrary-Header", "arbitrary-value">>,
                      <<"X-Forwarded-Proto", "https">>} }

-----------------------------------------------------------------------------
(* secure.go: the options struct and its setters.  Each setter returns a    *)
(* closure over its argument; WithX(o, v) is that closure applied to o.     *)

\* The zero value of the options struct.  The field the source names
\* WithSSLRedirect is sslRedirect here, the setter keeps the name.
ZeroOptions ==
    [ allowedHosts |-> <<>>,
      sslRedirect |-> FALSE,
      sslTemporaryRedirect |-> FALSE,
      sslHost |-> "",
      stsSeconds |-> 0,
      stsIncludeSubdomains |-> FALSE,
      frameDeny |-> FALSE,
      customFrameOptionsValue |-> "",
      contentTypeNosniff |-> FALSE,
      browserXssFilter |-> FALSE,
      contentSecurityPolicy |-> "",
      referrerPolicy |-> "",
      isDevelopment |-> FALSE,
      badHostHandler |-> "nil",
      ieNoOpen |-> FALSE,
      featurePolicy |-> "",
      dontRedirectIPV4Hostnames |-> FALSE,
      sslProxyHeaders |-> {} ]

\* Variants of the setters and of the handler, each with one slip.
WithAllowedHosts_unassigned(o, ss) == o

WithAllowedHosts(o, ss) == [o EXCEPT !.allowedHosts = ss]

WithSSLRedirect(o, b) == [o EXCEPT !.sslRedirect = b]

WithSSLTemporaryRedirect(o, b) == [o EXCEPT !.sslTemporaryRedirect = b]

WithSSLHost_unassigned(o, s) == o

WithSSLHost(o, s) == [o EXCEPT !.sslHost = s]

WithSTSSecond_unassigned(o, sec) == o

WithSTSSecond(o, sec) == [o EXCEPT !.stsSeconds = sec]

WithSTSIncludeSubdomains(o, b) == [o EXCEPT !.stsIncludeSubdomains = b]

WithFrameDeny(o, b) == [o EXCEPT !.frameDeny = b]

WithCustomFrameOptionsValue_afterDeny(o, s) ==
    IF o.frameDeny THEN o ELSE [o EXCEPT !.customFrameOptionsValue = s]

WithCustomFrameOptionsValue(o, s) == [o EXCEPT !.customFrameOptionsValue = s]

WithContentTypeNosniff(o, b) == [o EXCEPT !.contentTypeNosniff = b]

WithBrowserXssFilter(o, b) == [o EXCEPT !.browserXssFilter = b]

WithContentSecurityPolicy(o, s) == [o EXCEPT !.contentSecurityPolicy = s]

WithReferrerPolicy(o, s) == [o EXCEPT !.referrerPolicy = s]

WithIsDevelopment_wrongField(o, b) == [o EXCEPT !.ieNoOpen = b]

WithIsDevelopment(o, b) == [o EXCEPT !.isDevelopment = b]

WithIENoOpen(o, b) == [o EXCEPT !.ieNoOpen = b]

WithBadHostHandler(o, h) == [o EXCEPT !.badHostHandler = h]

WithFeaturePolicy_wrongField(o, s) == [o EXCEPT !.referrerPolicy = s]

WithFeaturePolicy(o, s) == [o EXCEPT !.featurePolicy = s]

WithDontRedirectIPV4Hostnames_wrongField(o, b) == [o EXCEPT !.sslTemporaryRedirect = b]

WithDontRedirectIPV4Hostnames(o, b) == [o EXCEPT !.dontRedirectIPV4Hostnames = b]

WithSSLProxyHeaders_unassigned(o, m) == o

WithSSLProxyHeaders(o, m) == [o EXCEPT !.sslProxyHeaders = m]

\* An Option value: the setter that made it and the argument it closes over.
Opt(name, arg) == [name |-> name, arg |-> arg]

\* opt(o): calling the closure.
Call(opt, o) ==
    CASE opt.name = "WithAllowedHosts" -> WithAllowedHosts(o, opt.arg)
      [] opt.name = "WithSSLRedirect" -> WithSSLRedirect(o, opt.arg)
      [] opt.name = "WithSSLTemporaryRedirect" -> WithSSLTemporaryRedirect(o, opt.arg)
      [] opt.name = "WithSSLHost" -> WithSSLHost(o, opt.arg)
      [] opt.name = "WithSTSSecond" -> WithSTSSecond(o, opt.arg)
      [] opt.name = "WithSTSIncludeSubdomains" -> WithSTSIncludeSubdomains(o, opt.arg)
      [] opt.name = "WithFrameDeny" -> WithFrameDeny(o, opt.arg)
      [] opt.name = "WithCustomFrameOptionsValue" -> WithCustomFrameOptionsValue(o, opt.arg)
      [] opt.name = "WithContentTypeNosniff" -> WithContentTypeNosniff(o, opt.arg)
      [] opt.name = "WithBrowserXssFilter" -> WithBrowserXssFilter(o, opt.arg)
      [] opt.name = "WithContentSecurityPolicy" -> WithContentSecurityPolicy(o, opt.arg)
      [] opt.name = "WithReferrerPolicy" -> WithReferrerPolicy(o, opt.arg)
      [] opt.name = "WithIsDevelopment" -> WithIsDevelopment(o, opt.arg)
      [] opt.name = "WithIENoOpen" -> WithIENoOpen(o, opt.arg)
      [] opt.name = "WithBadHostHandler" -> WithBadHostHandler(o, opt.arg)
      [] opt.name = "WithFeaturePolicy" -> WithFeaturePolicy(o, opt.arg)
      [] opt.name = "WithDontRedirectIPV4Hostnames" -> WithDontRedirectIPV4Hostnames(o, opt.arg)
      [] opt.name = "WithSSLProxyHeaders" -> WithSSLProxyHeaders(o, opt.arg)

\* func (o *options) Apply(opts []Option): every option in order.
RECURSIVE Apply(_, _)
Apply(o, os) == IF os = <<>> THEN o ELSE Apply(Call(Head(os), o), Tail(os))

\* The preset option list of Default.
DefaultSTSSeconds == 315360000

DefaultOptions ==
    << Opt("WithSSLRedirect", TRUE),
       Opt("WithIsDevelopment", FALSE),
       Opt("WithSTSSecond", DefaultSTSSeconds),
       Opt("WithFrameDeny", TRUE),
       Opt("WithContentTypeNosniff", TRUE),
       Opt("WithBrowserXssFilter", TRUE),
       Opt("WithContentSecurityPolicy", "default-src 'self'"),
       Opt("WithIENoOpen", TRUE),
       Opt("WithSSLProxyHeaders", {<<"X-Forwarded-Proto", "https">>}) >>

-----------------------------------------------------------------------------
(* The request context of the hosting framework, as section 6 describes it: *)
(* the outgoing response, the pipeline-termination signal and the           *)
(* pipeline-continuation primitive.                                         *)

\* A fresh context: status 200 is the implicit passthrough status.
NewContext ==
    [ status |-> 200,
      headers |-> {},
      body |-> "",
      aborted |-> FALSE,
      nextCalls |-> 0,
      badHostCalls |-> 0,
      decision |-> "none" ]

NoRequest == [host |-> <<>>, tls |-> FALSE, headers |-> {}, path |-> ""]

\* c.Header(name, value): one value per name.
SetHeader(cx, name, value) ==
    [cx EXCEPT !.headers = {kv \in @ : kv[1] # name} \cup {<<name, value>>}]

\* The value of a response header, "" when it is absent.
GetHeader(cx, name) ==
    IF \E kv \in cx.headers : kv[1] = name
    THEN (CHOOSE kv \in cx.headers : kv[1] = name)[2]
    ELSE ""

\* c.Next: the downstream handler runs (it answers 200 "bar").
Next_(cx) == [cx EXCEPT !.nextCalls = @ + 1, !.status = 200, !.body = "bar"]

\* The caller-supplied bad-host handler, opaque to the evaluator.
CallBadHostHandler(h, cx) ==
    LET wrote == [cx EXCEPT !.status = 500, !.body = "BadHost",
                            !.badHostCalls = @ + 1]
    IN IF h = "abort" THEN [wrote EXCEPT !.aborted = TRUE] ELSE wrote

-----------------------------------------------------------------------------
(* The policy evaluator (section 4.1) *)

\* newPolicy(opts): the config is the zero options with opts applied.
newPolicy(os) == [config |-> Apply(ZeroOptions, os)]

\* The hostname portion of a host value: what precedes the port suffix.
hostname(h) ==
    LET i == IndexOf(h, ":") IN IF i = 0 THEN h ELSE SubSeq(h, 1, i - 1)

\* A literal IPv4 address, with or without a port suffix.
isIPV4(h) ==
    LET parts == SplitDots(hostname(h))
    IN /\ Len(parts) = 4
       /\ \A k \in 1..4 :
            /\ Len(parts[k]) \in 1..3
            /\ \A j \in 1..Len(parts[k]) : parts[k][j] \in Digits
            /\ DecVal(parts[k]) <= 255

\* Step 2: the host allow-list check.
hostAllowed(cfg, rq) ==
    \/ Len(cfg.allowedHosts) = 0
    \/ \E i \in 1..Len(cfg.allowedHosts) : cfg.allowedHosts[i] = hostname(rq.host)

checkAllowHosts(cfg, rq, cx) ==
    IF hostAllowed(cfg, rq) THEN [ok |-> TRUE, c |-> cx]
    ELSE IF cfg.badHostHandler # "nil"
         THEN [ok |-> FALSE,
               c |-> [CallBadHostHandler(cfg.badHostHandler, cx)
                        EXCEPT !.aborted = TRUE, !.decision = "Reject"]]
         ELSE [ok |-> FALSE,
               c |-> [cx EXCEPT !.status = 403, !.aborted = TRUE,
                                !.decision = "Reject"]]

\* Step 3: "already secure".
isSecure(cfg, rq) ==
    \/ rq.tls
    \/ \E kv \in cfg.sslProxyHeaders : kv \in rq.headers

redirectTarget(cfg, rq) ==
    "https://" \o (IF cfg.sslHost # "" THEN cfg.sslHost ELSE Str(rq.host)) \o rq.path

checkSSL(cfg, rq, cx) ==
    IF ~cfg.sslRedirect \/ isSecure(cfg, rq) THEN [ok |-> TRUE, c |-> cx]
    ELSE IF cfg.dontRedirectIPV4Hostnames /\ isIPV4(rq.host)
         THEN [ok |-> TRUE, c |-> cx]
         ELSE [ok |-> FALSE,
               c |-> [SetHeader(cx, "Location", redirectTarget(cfg, rq))
                        EXCEPT !.status = IF cfg.sslTemporaryRedirect THEN 302 ELSE 301,
                               !.aborted = TRUE,
                               !.decision = "Redirect"]]

\* Step 4: header decoration.
stsValue(cfg) ==
    "max-age=" \o ToString(cfg.stsSeconds)
        \o (IF cfg.stsIncludeSubdomains THEN "; includeSubdomains" ELSE "")

SetIf(cond, cx, name, value) == IF cond THEN SetHeader(cx, name, value) ELSE cx

writeSecureHeaders(cfg, cx) ==
    LET c1 == SetIf(cfg.stsSeconds > 0, cx, "Strict-Transport-Security", stsValue(cfg))
        c2 == IF cfg.customFrameOptionsValue # ""
              THEN SetHeader(c1, "X-Frame-Options", cfg.customFrameOptionsValue)
              ELSE SetIf(cfg.frameDeny, c1, "X-Frame-Options", "DENY")
        c3 == SetIf(cfg.contentTypeNosniff, c2, "X-Content-Type-Options", "nosniff")
        c4 == SetIf(cfg.browserXssFilter, c3, "X-XSS-Protection", "1; mode=block")
        c5 == SetIf(cfg.ieNoOpen, c4, "X-Download-Options", "noopen")
        c6 == SetIf(cfg.contentSecurityPolicy # "", c5, "Content-Security-Policy",
                    cfg.contentSecurityPolicy)
        c7 == SetIf(cfg.referrerPolicy # "", c6, "Referrer-Policy", cfg.referrerPolicy)
    IN SetIf(cfg.featurePolicy # "", c7, "Feature-Policy", cfg.featurePolicy)

\* applyToContext: TRUE exactly when the decision is Continue.
applyToContext(p, rq, cx) ==
    IF p.config.isDevelopment
    THEN [ok |-> TRUE, c |-> [cx EXCEPT !.decision = "Continue"]]
    ELSE LET h == checkAllowHosts(p.config, rq, cx)
         IN IF ~h.ok THEN h
            ELSE LET s == checkSSL(p.config, rq, h.c)
                 IN IF ~s.ok THEN s
                    ELSE [ok |-> TRUE,
                          c |-> [writeSecureHeaders(p.config, s.c)
                                   EXCEPT !.decision = "Continue"]]

\* The handler with the early return lost: c.Next runs whatever was decided.
handler_alwaysNext(p, rq, cx) == Next_(applyToContext(p, rq, cx).c)

\* The handler New returns, run on one request.
handler(p, rq, cx) ==
    LET r == applyToContext(p, rq, cx)
    IN IF ~r.ok THEN r.c ELSE Next_(r.c)

-----------------------------------------------------------------------------
(* The state machine: a caller assembles options, constructs the middleware *)
(* with New or Default, and the middleware then handles requests.           *)

Setters ==
    { "WithAllowedHosts", "WithSSLRedirect", "WithSSLTemporaryRedirect",
      "WithSSLHost", "WithSTSSecond", "WithSTSIncludeSubdomains", "WithFrameDeny",
      "WithCustomFrameOptionsValue", "WithContentTypeNosniff",
      "WithBrowserXssFilter", "WithContentSecurityPolicy", "WithReferrerPolicy",
      "WithIsDevelopment", "WithIENoOpen", "WithBadHostHandler",
      "WithFeaturePolicy", "WithDontRedirectIPV4Hostnames", "WithSSLProxyHeaders" }

\* Per setter, <<a>> for the argument a of its last option in os, <<>> when
\* os holds no option of that setter.
LastArgs(os) ==
    [n \in Setters |->
        LET I == {i \in 1..Len(os) : os[i].name = n}
        IN IF I = {} THEN <<>>
           ELSE <<os[CHOOSE i \in I : \A j \in I : j <= i].arg>>]

Init ==
    /\ userOpts = <<>>
    /\ ctor = "none"
    /\ given = LastArgs(<<>>)
    /\ policy = [config |-> ZeroOptions]
    /\ req = NoRequest
    /\ c = NewContext

Pass(o) ==
    /\ ctor = "none"
    /\ Len(userOpts) < MaxOpts
    /\ userOpts' = Append(userOpts, o)
    /\ UNCHANGED <<ctor, given, policy, req, c>>

PassAllowedHosts == \E ss \in AllowedHostLists : Pass(Opt("WithAllowedHosts", ss))
PassSSLRedirect == \E b \in BOOLEAN : Pass(Opt("WithSSLRedirect", b))
PassSSLTemporaryRedirect == \E b \in BOOLEAN : Pass(Opt("WithSSLTemporaryRedirect", b))
PassSSLHost == \E s \in SSLHosts : Pass(Opt("WithSSLHost", s))
PassSTSSecond == \E n \in STSSecondsValues : Pass(Opt("WithSTSSecond", n))
PassSTSIncludeSubdomains == \E b \in BOOLEAN : Pass(Opt("WithSTSIncludeSubdomains", b))
PassFrameDeny == \E b \in BOOLEAN : Pass(Opt("WithFrameDeny", b))
PassCustomFrameOptionsValue ==
    \E s \in FrameOptionsValues : Pass(Opt("WithCustomFrameOptionsValue", s))
PassContentTypeNosniff == \E b \in BOOLEAN : Pass(Opt("WithContentTypeNosniff", b))
PassBrowserXssFilter == \E b \in BOOLEAN : Pass(Opt("WithBrowserXssFilter", b))
PassContentSecurityPolicy ==
    \E s \in ContentSecurityPolicies : Pass(Opt("WithContentSecurityPolicy", s))
PassReferrerPolicy == \E s \in ReferrerPolicies : Pass(Opt("WithReferrerPolicy", s))
PassIsDevelopment == \E b \in BOOLEAN : Pass(Opt("WithIsDevelopment", b))
PassIENoOpen == \E b \in BOOLEAN : Pass(Opt("WithIENoOpen", b))
PassBadHostHandler == \E h \in BadHostHandlers : Pass(Opt("WithBadHostHandler", h))
PassFeaturePolicy == \E s \in FeaturePolicies : Pass(Opt("WithFeaturePolicy", s))
PassDontRedirectIPV4Hostnames ==
    \E b \in BOOLEAN : Pass(Opt("WithDontRedirectIPV4Hostnames", b))
PassSSLProxyHeaders == \E m \in ProxyHeaderMaps : Pass(Opt("WithSSLProxyHeaders", m))

\* New(opts...): the handler closes over newPolicy(opts).
Construct(name, os) ==
    /\ ctor = "none"
    /\ ctor' = name
    /\ given' = LastArgs(os)
    /\ policy' = newPolicy(os)
    /\ userOpts' = <<>>
    /\ UNCHANGED <<req, c>>

New == Construct("New", userOpts)

\* Default with the preset appended after the caller's options.
Default_presetLast == Construct("Default", userOpts \o DefaultOptions)

\* Default(opts...): New(the preset options, then the caller's).
Default == Construct("Default", DefaultOptions \o userOpts)

\* The handler runs on one inbound request, with a fresh context.
Handle ==
    /\ ctor # "none"
    /\ c.decision = "none"
    /\ \E rq \in Requests :
         /\ req' = rq
         /\ c' = handler(policy, rq, NewContext)
    /\ UNCHANGED <<userOpts, ctor, given, policy>>

\* The response is sent and the context released; the next request gets a
\* fresh one.
Release ==
    /\ c.decision # "none"
    /\ req' = NoRequest
    /\ c' = NewContext
    /\ UNCHANGED <<userOpts, ctor, given, policy>>

Next ==
    \/ PassAllowedHosts
    \/ PassSSLRedirect
    \/ PassSSLTemporaryRedirect
    \/ PassSSLHost
    \/ PassSTSSecond
    \/ PassSTSIncludeSubdomains
    \/ PassFrameDeny
    \/ PassCustomFrameOptionsValue
    \/ PassContentTypeNosniff
    \/ PassBrowserXssFilter
    \/ PassContentSecurityPolicy
    \/ PassReferrerPolicy
    \/ PassIsDevelopment
    \/ PassIENoOpen
    \/ PassBadHostHandler
    \/ PassFeaturePolicy
    \/ PassDontRedirectIPV4Hostnames
    \/ PassSSLProxyHeaders
    \/ New
    \/ Default
    \/ Handle
    \/ Release

Spec == Init /\ [][Next]_vars

-----------------------------------------------------------------------------
(* What the caller configured, read from the options New received, and     *)
(* what the request is, stated without the evaluator's own helpers.        *)

Arg(n, zero) == IF given[n] = <<>> THEN zero ELSE given[n][1]

Handled == c.decision # "none"
DevOn == Arg("WithIsDevelopment", FALSE)
AllowList == Arg("WithAllowedHosts", <<>>)
BadHost == Arg("WithBadHostHandler", "nil")
SSLRedirectOn == Arg("WithSSLRedirect", FALSE)
SSLHostArg == Arg("WithSSLHost", "")
TemporaryOn == Arg("WithSSLTemporaryRedirect", FALSE)
DontRedirectIPV4On == Arg("WithDontRedirectIPV4Hostnames", FALSE)
ProxyMap == Arg("WithSSLProxyHeaders", {})
STSSecondsArg == Arg("WithSTSSecond", 0)
STSSubdomainsOn == Arg("WithSTSIncludeSubdomains", FALSE)
FrameDenyOn == Arg("WithFrameDeny", FALSE)
CustomFrameArg == Arg("WithCustomFrameOptionsValue", "")

\* h is the name e, alone or followed by a port suffix.
NameWithOptionalPort(e, h) ==
    \/ h = e
    \/ /\ Len(h) > Len(e)
       /\ SubSeq(h, 1, Len(e)) = e
       /\ h[Len(e) + 1] = ":"

HostInList == \E i \in 1..Len(AllowList) : NameWithOptionalPort(AllowList[i], req.host)
HostPasses == AllowList = <<>> \/ HostInList

\* The IPv4-literal hosts among Hosts.
IPV4Literal == req.host \in {Loopback, Loopback \o Port8080}

ProxyMatch == \E kv \in ProxyMap : kv \in req.headers
AlreadySecure == req.tls \/ ProxyMatch

HasHeader(name) == \E kv \in c.headers : kv[1] = name
Redirected == c.decision = "Redirect" \/ c.status \in {301, 302} \/ HasHeader("Location")

\* C1: with the development flag set, every request ends in Continue with no
\* header attached, no redirect, no 403, no bad-host handler call, and the
\* downstream handler runs, whatever the other options are.
C1_DevelopmentBypass ==
    (Handled /\ DevOn) =>
        /\ c.decision = "Continue"
        /\ c.headers = {}
        /\ ~Redirected
        /\ c.status = 200
        /\ ~c.aborted
        /\ c.badHostCalls = 0
        /\ c.nextCalls = 1

C1_Witness ==
    /\ Handled /\ DevOn
    /\ AllowList = <<WwwExampleCom>>
    /\ req.host = Www3ExampleCom
    /\ c.nextCalls = 1

\* C2: with development off, the host check passes (the request is not
\* rejected) exactly when the allow-list is empty or the host, with any port
\* suffix ignored, is one of its entries.
C2_AllowListCheck ==
    (Handled /\ ~DevOn) => ((c.decision # "Reject") <=> HostPasses)

C2_Witness ==
    /\ Handled /\ ~DevOn
    /\ AllowList = <<WwwExampleCom, SubExampleCom>>
    /\ req.host = WwwExampleCom \o Port8080
    /\ c.decision = "Continue"

\* C3: with development off, a non-empty allow-list and no bad-host handler,
\* a request whose host matches no entry (the empty host included) is
\* rejected with 403, the downstream handler does not run and there is no
\* redirect.
C3_RejectForbidden ==
    (Handled /\ ~DevOn /\ AllowList # <<>> /\ BadHost = "nil" /\ ~HostInList) =>
        /\ c.decision = "Reject"
        /\ c.status = 403
        /\ c.nextCalls = 0
        /\ ~HasHeader("Location")

C3_Witness ==
    /\ Handled /\ ~DevOn /\ BadHost = "nil"
    /\ AllowList = <<WwwExampleCom, SubExampleCom>>
    /\ req.host = <<>>
    /\ c.status = 403

\* C4: with a bad-host handler configured and a host that fails the
\* allow-list, the handler is called exactly once instead of the 403, and the
\* pipeline is terminated whether or not the handler aborted: the downstream
\* handler does not run.
C4_BadHostHandler ==
    (Handled /\ ~DevOn /\ BadHost # "nil" /\ ~HostPasses) =>
        /\ c.badHostCalls = 1
        /\ c.status = 500
        /\ c.body = "BadHost"
        /\ c.decision = "Reject"
        /\ c.aborted
        /\ c.nextCalls = 0

C4_Witness ==
    /\ Handled /\ ~DevOn /\ ~HostPasses
    /\ BadHost = "noabort"
    /\ c.badHostCalls = 1
    /\ c.nextCalls = 0

\* C5: with development off, SSL-redirect on, the host check passed, the
\* connection not secure and the IPv4 exemption not applying, the outcome is a
\* redirect to https:// + (the SSL host if set, else the request host) + the
\* path and query, with 301, or 302 when temporary-redirect is set; Location
\* is the only header attached and the downstream handler does not run.
C5_Location ==
    "https://" \o (IF SSLHostArg # "" THEN SSLHostArg ELSE Str(req.host)) \o req.path

C6_AlreadySecure ==
    (Handled /\ SSLRedirectOn) =>
        /\ AlreadySecure => ~Redirected
        /\ (~DevOn /\ HostPasses /\ ~(DontRedirectIPV4On /\ IPV4Literal)) =>
               (Redirected <=> ~AlreadySecure)

C6_Witness ==
    /\ Handled /\ SSLRedirectOn /\ ~DevOn
    /\ ProxyMap = {}
    /\ ~req.tls /\ req.headers = {<<"X-Forwarded-Proto", "https">>}
    /\ req.host = WwwExampleCom
    /\ c.status = 301

\* C7: with SSL-redirect on and an insecure request that passed the host
\* check: when DontRedirectIPV4Hostnames is on, an IPv4-literal host, with or
\* without a port, continues with 200 and any other host is redirected; when
\* it is off, IPv4-literal hosts are redirected like any other.
C7_IPV4Exemption ==
    (Handled /\ ~DevOn /\ SSLRedirectOn /\ HostPasses /\ ~AlreadySecure) =>
        IF DontRedirectIPV4On /\ IPV4Literal
        THEN c.decision = "Continue" /\ c.status = 200 /\ c.nextCalls = 1
                /\ ~HasHeader("Location")
        ELSE c.decision = "Redirect" /\ c.nextCalls = 0

C7_Witness ==
    /\ Handled /\ ~DevOn /\ SSLRedirectOn /\ DontRedirectIPV4On
    /\ ~AlreadySecure
    /\ req.host = Loopback \o Port8080
    /\ c.decision = "Continue"

\* C8: on a Continue outcome with development off, Strict-Transport-Security
\* is attached exactly when the configured seconds are greater than 0, secure
\* connection or not; its value is max-age=<seconds>, followed by
\* "; includeSubdomains" exactly when the subdomain flag is on.
C8_MaxAge ==
    CASE STSSecondsArg = 1 -> "max-age=1"
      [] STSSecondsArg = 315360000 -> "max-age=315360000"
      [] OTHER -> ""

C9_FrameOptions ==
    (Handled /\ ~DevOn /\ c.decision = "Continue") =>
        IF CustomFrameArg # ""
        THEN <<"X-Frame-Options", CustomFrameArg>> \in c.headers
        ELSE IF FrameDenyOn
             THEN <<"X-Frame-Options", "DENY">> \in c.headers
             ELSE ~HasHeader("X-Frame-Options")

C9_Witness ==
    /\ Handled /\ ~DevOn /\ c.decision = "Continue"
    /\ FrameDenyOn /\ CustomFrameArg = "SAMEORIGIN"
    /\ GetHeader(c, "X-Frame-Options") = "SAMEORIGIN"

\* C10: Default called with no option yields SSL-redirect on, development
\* off, HSTS max-age 315360000 with include-subdomains on, frame-deny on,
\* content-type-nosniff on, XSS-filter on, content-security-policy
\* "default-src 'self'", IE-no-open on and the proxy-header map
\* {X-Forwarded-Proto: https}, every other field zero.
C10_StrictDefaults ==
    [ ZeroOptions EXCEPT
        !.sslRedirect = TRUE,
        !.isDevelopment = FALSE,
        !.stsSeconds = 315360000,
        !.stsIncludeSubdomains = TRUE,
        !.frameDeny = TRUE,
        !.contentTypeNosniff = TRUE,
        !.browserXssFilter = TRUE,
        !.contentSecurityPolicy = "default-src 'self'",
        !.ieNoOpen = TRUE,
        !.sslProxyHeaders = {<<"X-Forwarded-Proto", "https">>} ]

C10_DefaultPreset ==
    [][(userOpts = <<>> /\ ctor = "none" /\ ctor' = "Default")
          => policy'.config = C10_StrictDefaults]_vars

\* C11 (the evaluator is stateless: equal requests get equal Decisions over
\* any sequence or interleaving of evaluations) relates two evaluations of
\* one behaviour to each other.  handler is an operator of the policy, the
\* request and a fresh context, so the agreement of two of its evaluations
\* holds of every model and no formula is given for it.

NosniffOn == Arg("WithContentTypeNosniff", FALSE)
XssFilterOn == Arg("WithBrowserXssFilter", FALSE)
IENoOpenOn == Arg("WithIENoOpen", FALSE)
CSPArg == Arg("WithContentSecurityPolicy", "")
ReferrerArg == Arg("WithReferrerPolicy", "")
FeatureArg == Arg("WithFeaturePolicy", "")

\* C12: the host check comes before SSL enforcement and is never skipped.
\* With development off a request whose host fails the allow-list is
\* rejected, by the 403 or by the bad-host handler, and is not redirected,
\* on a secure connection as on an insecure one with SSL-redirect on; every
\* redirect is of a host that passed the allow-list.
C12_HostCheckFirst ==
    /\ (Handled /\ ~DevOn /\ ~HostPasses) =>
           /\ c.decision = "Reject"
           /\ ~Redirected
           /\ c.aborted
           /\ IF BadHost = "nil"
              THEN c.status = 403 /\ c.badHostCalls = 0
              ELSE c.badHostCalls = 1
    /\ (Handled /\ Redirected) => HostPasses

C12_Witness ==
    /\ Handled /\ ~DevOn /\ ~HostPasses
    /\ SSLRedirectOn /\ ~AlreadySecure
    /\ req.host = Www3ExampleCom
    /\ c.decision = "Reject"

\* C13: on a Continue outcome with development off, each fixed header is
\* present exactly when its own option is set, with its value:
\* X-Content-Type-Options nosniff, X-XSS-Protection 1; mode=block,
\* X-Download-Options noopen, and Content-Security-Policy, Referrer-Policy
\* and Feature-Policy the configured string; no header is attached whose
\* option is unset.
C13_FixedExpected ==
    (IF NosniffOn THEN {<<"X-Content-Type-Options", "nosniff">>} ELSE {})
    \cup (IF XssFilterOn THEN {<<"X-XSS-Protection", "1; mode=block">>} ELSE {})
    \cup (IF IENoOpenOn THEN {<<"X-Download-Options", "noopen">>} ELSE {})
    \cup (IF CSPArg # "" THEN {<<"Content-Security-Policy", CSPArg>>} ELSE {})
    \cup (IF ReferrerArg # "" THEN {<<"Referrer-Policy", ReferrerArg>>} ELSE {})
    \cup (IF FeatureArg # "" THEN {<<"Feature-Policy", FeatureArg>>} ELSE {})

C13_FixedHeaders ==
    (Handled /\ ~DevOn /\ c.decision = "Continue") =>
        /\ {kv \in c.headers :
               kv[1] \notin {"Strict-Transport-Security", "X-Frame-Options"}}
             = C13_FixedExpected
        /\ HasHeader("Strict-Transport-Security") => STSSecondsArg > 0
        /\ HasHeader("X-Frame-Options") => (CustomFrameArg # "" \/ FrameDenyOn)

C13_Witness ==
    /\ Handled /\ ~DevOn /\ ctor = "New"
    /\ IENoOpenOn /\ FeatureArg = "vibrate 'none';"
    /\ c.headers = {<<"X-Download-Options", "noopen">>,
                    <<"Feature-Policy", "vibrate 'none';">>}

\* C14: every evaluation ends in exactly one of Continue, Redirect and
\* Reject; the downstream handler is run exactly once on Continue and not at
\* all on Redirect or Reject.
C14_LooksContinue == ~c.aborted /\ ~HasHeader("Location") /\ c.status = 200
C14_LooksRedirect == c.aborted /\ HasHeader("Location") /\ c.status \in {301, 302}
C14_LooksReject == c.aborted /\ ~HasHeader("Location") /\ c.status \in {403, 500}

C14_NextOncePerContinue ==
    Handled =>
        /\ c.decision \in {"Continue", "Redirect", "Reject"}
        /\ (c.decision = "Continue") <=> C14_LooksContinue
        /\ (c.decision = "Redirect") <=> C14_LooksRedirect
        /\ (c.decision = "Reject") <=> C14_LooksReject
        /\ c.nextCalls = (IF c.decision = "Continue" THEN 1 ELSE 0)

C14_Witness ==
    /\ Handled /\ ctor = "Default"
    /\ c.decision = "Redirect"
    /\ c.status = 302
    /\ c.nextCalls = 0

\* C15: options are applied in order, the last writer of a field winning,
\* and Default applies the caller's options after its preset: a field the
\* caller sets has the caller's last value, every other field has the preset
\* value (under New, the zero value).
C15_Field(cfg, n) ==
    CASE n = "WithAllowedHosts" -> cfg.allowedHosts
      [] n = "WithSSLRedirect" -> cfg.sslRedirect
      [] n = "WithSSLTemporaryRedirect" -> cfg.sslTemporaryRedirect
      [] n = "WithSSLHost" -> cfg.sslHost
      [] n = "WithSTSSecond" -> cfg.stsSeconds
      [] n = "WithSTSIncludeSubdomains" -> cfg.stsIncludeSubdomains
      [] n = "WithFrameDeny" -> cfg.frameDeny
      [] n = "WithCustomFrameOptionsValue" -> cfg.customFrameOptionsValue
      [] n = "WithContentTypeNosniff" -> cfg.contentTypeNosniff
      [] n = "WithBrowserXssFilter" -> cfg.browserXssFilter
      [] n = "WithContentSecurityPolicy" -> cfg.contentSecurityPolicy
      [] n = "WithReferrerPolicy" -> cfg.referrerPolicy
      [] n = "WithIsDevelopment" -> cfg.isDevelopment
      [] n = "WithIENoOpen" -> cfg.ieNoOpen
      [] n = "WithBadHostHandler" -> cfg.badHostHandler
      [] n = "WithFeaturePolicy" -> cfg.featurePolicy
      [] n = "WithDontRedirectIPV4Hostnames" -> cfg.dontRedirectIPV4Hostnames
      [] n = "WithSSLProxyHeaders" -> cfg.sslProxyHeaders

\* The fields Default's preset list sets, as the list is written.
C15_Preset ==
    [ ZeroOptions EXCEPT
        !.sslRedirect = TRUE,
        !.isDevelopment = FALSE,
        !.stsSeconds = 315360000,
        !.frameDeny = TRUE,
        !.contentTypeNosniff = TRUE,
        !.browserXssFilter = TRUE,
        !.contentSecurityPolicy = "default-src 'self'",
        !.ieNoOpen = TRUE,
        !.sslProxyHeaders = {<<"X-Forwarded-Proto", "https">>} ]

C15_LastWriterWins ==
    [][(ctor = "none" /\ ctor' # "none") =>
          LET base == IF ctor' = "Default" THEN C15_Preset ELSE ZeroOptions
              last == LastArgs(userOpts)
          IN \A n \in Setters :
                C15_Field(policy'.config, n) =
                    (IF last[n] # <<>> THEN last[n][1] ELSE C15_Field(base, n))]_vars

C15_Witness ==
    /\ ctor = "Default"
    /\ given["WithIsDevelopment"] = <<TRUE>>
    /\ given["WithSSLRedirect"] = <<FALSE>>
    /\ policy.config.isDevelopment
    /\ ~policy.config.sslRedirect
    /\ policy.config.stsSeconds = 315360000
    /\ policy.config.frameDeny

====
